---------------------------- MODULE Spec2Model ----------------------------
(***************************************************************************)
(* MotionCamera (src/python/motion_camera.py): a camera handle, a          *)
(* grayscale box blur of every captured frame, and the share of pixels     *)
(* whose blurred value moved by more than 30 since the previous capture.   *)
(*                                                                         *)
(* Images are sequences of rows.  A captured frame holds <<b, g, r>>       *)
(* pixels, a processed image and a mask hold 0..255.  Python's None is the *)
(* empty tuple for images and 0 for the device handle.  The motion amount  *)
(* (a Python float, the true quotient of two ints) is kept as a reduced    *)
(* fraction [num, den].                                                    *)
(***************************************************************************)
EXTENDS Integers, Sequences, FiniteSets

VARIABLES
    cap,            \* self.cap: 0 (None) or a VideoCapture object
    last_frame,     \* self.last_frame: None or the previous processed image
    opened,         \* the VideoCapture objects that hold the device: opened, not released
    scene,          \* the frames the device can deliver on a successful read
    op,             \* the most recent call
    frame,          \* get_motion's returned frame
    motion_frame,   \* get_motion's returned mask
    motion_amount,  \* get_motion's returned motion amount
    error,          \* the exception the most recent call raised, "none" if it returned
    recent,         \* history: the frame of the latest successful capture since the last stop_capture
    misses,         \* history: failed get_motion calls since the latest successful capture (saturating)
    pendingStart,   \* history: start_capture was called and no get_motion has succeeded since
    obs             \* history: what the most recent get_motion did and found on entry
                    \* (before: recent on entry, also for stop_capture)

vars == <<cap, last_frame, opened, scene, op, frame, motion_frame,
          motion_amount, error, recent, misses, pendingStart, obs>>

-----------------------------------------------------------------------------
(* Bounds of the model *)

Side == 4
MaxHandles == 2
MaxMisses == 2

-----------------------------------------------------------------------------
(* Values *)

None == <<>>
NoHandle == 0
Handles == 1..MaxHandles

Thresh == 30
MaxVal == 255

RECURSIVE GCD(_, _)
GCD(a, b) == IF b = 0 THEN a ELSE GCD(b, a % b)

\* the quotient n / d of two non-negative ints, d > 0
Frac(n, d) == LET g == GCD(n, d) IN [num |-> n \div g, den |-> d \div g]

Zero == Frac(0, 1)

Rows(img) == Len(img)
Cols(img) == Len(img[1])
Size(img) == Rows(img) * Cols(img)

\* a function on 1..n as the sequence of its values
Tuple(f) == <<>> \o f

\* self.kernel = np.ones((3, 3), np.float32) / 9
kernel == [w |-> <<<<1, 1, 1>>, <<1, 1, 1>>, <<1, 1, 1>>>>, div |-> 9]

-----------------------------------------------------------------------------
(* The image primitives, as the library computes them on 8-bit images *)

\* cv2.cvtColor(frame, cv2.COLOR_BGR2GRAY): 14-bit fixed point luminance
CvtColor(f) ==
    Tuple([r \in 1..Rows(f) |-> Tuple([c \in 1..Cols(f) |->
        (f[r][c][1] * 1868 + f[r][c][2] * 9617 + f[r][c][3] * 4899 + 8192)
            \div 16384])])

\* BORDER_REFLECT_101, filter2D's default border: ...3 2 | 1 2 3 ... n | n-1 ...
Reflect101(i, n) == IF i < 1 THEN 2 - i ELSE IF i > n THEN 2 * n - i ELSE i

Saturate(v) == IF v < 0 THEN 0 ELSE IF v > MaxVal THEN MaxVal ELSE v

KernelRow(gray, k, r, c, i) ==
    LET rr == Reflect101(r + i - 2, Rows(gray))
        n  == Cols(gray)
    IN  k.w[i][1] * gray[rr][Reflect101(c - 1, n)]
      + k.w[i][2] * gray[rr][c]
      + k.w[i][3] * gray[rr][Reflect101(c + 1, n)]

\* a mutation of Filter2D: the kernel is not applied
Filter2DIdentity(gray, k) == gray

\* cv2.filter2D(gray, -1, kernel): the weighted sum of the 3x3 neighbourhood,
\* rounded to the nearest integer and saturated to 0..255
Filter2D(gray, k) ==
    Tuple([r \in 1..Rows(gray) |-> Tuple([c \in 1..Cols(gray) |->
        LET s == KernelRow(gray, k, r, c, 1) + KernelRow(gray, k, r, c, 2)
                   + KernelRow(gray, k, r, c, 3)
        IN  Saturate((2 * s + k.div) \div (2 * k.div))])])

\* MotionCamera._apply_kernel(frame), kernel defaulting to self.kernel
ApplyKernel(f, k) == Filter2D(CvtColor(f), k)

Abs(x) == IF x < 0 THEN -x ELSE x

\* cv2.absdiff
AbsDiff(a, b) ==
    Tuple([r \in 1..Rows(a) |-> Tuple([c \in 1..Cols(a) |->
        Abs(a[r][c] - b[r][c])])])

\* a mutation of Threshold: the cutoff is inclusive
ThresholdInclusive(img, t, m) ==
    Tuple([r \in 1..Rows(img) |-> Tuple([c \in 1..Cols(img) |->
        IF img[r][c] >= t THEN m ELSE 0])])

\* cv2.threshold(img, t, m, cv2.THRESH_BINARY)[1]
Threshold(img, t, m) ==
    Tuple([r \in 1..Rows(img) |-> Tuple([c \in 1..Cols(img) |->
        IF img[r][c] > t THEN m ELSE 0])])

\* np.zeros_like
ZerosLike(img) ==
    Tuple([r \in 1..Rows(img) |-> Tuple([c \in 1..Cols(img) |-> 0])])

\* np.count_nonzero
CountNonZero(img) ==
    Cardinality({p \in (1..Rows(img)) \X (1..Cols(img)) : img[p[1]][p[2]] # 0})

\* a mutation of MotionAmount: floor division
MotionAmountFloor(mask) == Frac((CountNonZero(mask) * 100) \div Size(mask), 1)

\* np.count_nonzero(motion_frame) * 100 / motion_frame.size
MotionAmount(mask) == Frac(CountNonZero(mask) * 100, Size(mask))


-----------------------------------------------------------------------------
(* The sensor's operations *)

\* the VideoCapture objects that can be created: not the one in self.cap,
\* not one that still holds the device
FreeHandles == Handles \ (opened \cup {cap})

NewHandle(c, o) ==
    CHOOSE h \in Handles \ (o \cup {c}) : \A g \in Handles \ (o \cup {c}) : h <= g

\* start_capture: self.cap = cv2.VideoCapture(self.camera_index), then two
\* cap.set calls, which change nothing here.  ok: the device opened.  The
\* object that self.cap named before is not released by the code; fin: the
\* runtime finalized it (which releases it) when its last reference went.
StartCaptureResult(c, o, ok, fin) ==
    LET h == NewHandle(c, o)
    IN  [cap    |-> h,
         opened |-> (IF fin THEN o \ {c} ELSE o) \cup (IF ok THEN {h} ELSE {})]

\* a mutation of StopCaptureResult: the previous frame is kept
StopCaptureKeepsFrame(c, o, lf) ==
    IF c # NoHandle
        THEN [cap |-> NoHandle, opened |-> o \ {c}, last_frame |-> lf]
        ELSE [cap |-> c, opened |-> o, last_frame |-> lf]

\* stop_capture: if self.cap: release it and forget it; forget the last frame
StopCaptureResult(c, o, lf) ==
    IF c # NoHandle
        THEN [cap |-> NoHandle, opened |-> o \ {c}, last_frame |-> None]
        ELSE [cap |-> c, opened |-> o, last_frame |-> None]

\* a mutation of NeedsStart: only an absent handle is started
NeedsStartAbsentOnly(c, o) == c = NoHandle

\* get_motion: if self.cap is None or not self.cap.isOpened()
NeedsStart(c, o) == c = NoHandle \/ c \notin o

\* self.cap.read(): unsuccessful on a handle that is not open; on an open one
\* the frame the device delivers, r, or None when it delivers none
Read(c, o, r) == IF c \in o THEN r ELSE None

\* a mutation of FailureResult: the frame slot is not None
FailureResultStale == [frame |-> frame, motion_frame |-> None, motion_amount |-> Zero]

\* return None, None, 0
FailureResult == [frame |-> None, motion_frame |-> None, motion_amount |-> Zero]

\* a mutation of AfterFailedRead: the previous frame is dropped
AfterFailedReadCleared(lf) == None

\* self.last_frame after the early return of a failed read
AfterFailedRead(lf) == lf

\* motion_frame and motion_amount of a successful capture
Compare(processed, lf) ==
    IF lf # None
        THEN LET mask == Threshold(AbsDiff(processed, lf), Thresh, MaxVal)
             IN  [motion_frame |-> mask, motion_amount |-> MotionAmount(mask)]
        ELSE [motion_frame |-> ZerosLike(processed), motion_amount |-> Zero]

\* a mutation of StoreLast: the first processed image is kept for good
StoreLastFirstOnly(processed, lf) == IF lf # None THEN lf ELSE processed

\* self.last_frame = processed
StoreLast(processed, lf) == processed

NoObs == [started |-> FALSE, read_from |-> NoHandle, read_ok |-> FALSE,
          before |-> None, gap |-> 0, after_start |-> FALSE]

StartCapture ==
    /\ FreeHandles # {}
    /\ \E ok \in BOOLEAN, fin \in BOOLEAN :
          LET s == StartCaptureResult(cap, opened, ok, fin)
          IN  /\ cap' = s.cap
              /\ opened' = s.opened
    /\ op' = "start_capture"
    /\ frame' = None /\ motion_frame' = None /\ motion_amount' = Zero
    /\ error' = "none"
    /\ pendingStart' = TRUE
    /\ obs' = NoObs
    /\ UNCHANGED <<last_frame, scene, recent, misses>>

StopCapture ==
    /\ LET s == StopCaptureResult(cap, opened, last_frame)
       IN  /\ cap' = s.cap
           /\ opened' = s.opened
           /\ last_frame' = s.last_frame
    /\ op' = "stop_capture"
    /\ frame' = None /\ motion_frame' = None /\ motion_amount' = Zero
    /\ error' = "none"
    /\ recent' = None
    /\ misses' = 0
    /\ obs' = [NoObs EXCEPT !.before = recent]
    /\ UNCHANGED <<scene, pendingStart>>

GetMotion ==
    LET needs == NeedsStart(cap, opened) IN
    /\ needs => FreeHandles # {}
    /\ \E ok \in BOOLEAN, r \in scene \cup {None} :
          LET s    == IF needs THEN StartCaptureResult(cap, opened, ok, FALSE)
                               ELSE [cap |-> cap, opened |-> opened]
              got  == Read(s.cap, s.opened, r)
              seen == [started |-> needs, read_from |-> s.cap, read_ok |-> got # None,
                       before |-> recent, gap |-> misses, after_start |-> pendingStart]
          IN  /\ cap' = s.cap
              /\ opened' = s.opened
              /\ op' = "get_motion"
              /\ obs' = seen
              /\ IF s.cap = NoHandle
                    THEN \* None has no read: the call raises
                         /\ error' = "AttributeError"
                         /\ frame' = None /\ motion_frame' = None
                         /\ motion_amount' = Zero
                         /\ UNCHANGED <<last_frame, recent, misses, pendingStart>>
                    ELSE IF got = None
                    THEN /\ error' = "none"
                         /\ frame' = FailureResult.frame
                         /\ motion_frame' = FailureResult.motion_frame
                         /\ motion_amount' = FailureResult.motion_amount
                         /\ last_frame' = AfterFailedRead(last_frame)
                         /\ misses' = IF misses < MaxMisses THEN misses + 1 ELSE misses
                         /\ UNCHANGED <<recent, pendingStart>>
                    ELSE \E processed \in {ApplyKernel(got, kernel)} :
                         \E res \in {Compare(processed, last_frame)} :
                             /\ error' = "none"
                             /\ frame' = got
                             /\ motion_frame' = res.motion_frame
                             /\ motion_amount' = res.motion_amount
                             /\ last_frame' = StoreLast(processed, last_frame)
                             /\ recent' = got
                             /\ misses' = 0
                             /\ pendingStart' = FALSE
    /\ UNCHANGED scene

-----------------------------------------------------------------------------
(* What the device can show *)

\* a uniform frame of the given shape
Tint(rows, cols, px) ==
    Tuple([r \in 1..rows |-> Tuple([c \in 1..cols |-> px])])

Gray(v) == Tint(Side, Side, <<v, v, v>>)

\* f with the gray pixel at (r, c) moved by d
Moved(f, r, c, d) ==
    [f EXCEPT ![r][c] = <<f[r][c][1] + d, f[r][c][2] + d, f[r][c][3] + d>>]

Spot == Moved(Gray(0), 2, 2, MaxVal)

\* gray a in the left half, gray b in the right half
Split(a, b) ==
    Tuple([r \in 1..Side |-> Tuple([c \in 1..Side |->
        IF 2 * c <= Side THEN <<a, a, a>> ELSE <<b, b, b>>])])

Frames ==
    {Gray(0), Split(Thresh, Thresh + 1), Spot, Tint(Side, Side, <<MaxVal, 0, 0>>)}

\* the 4x4 frames of the end-to-end scenario: a uniform gray frame and the
\* same frame with two pixels moved by 50 each, up or down
Base4 == Tint(4, 4, <<100, 100, 100>>)

Pixels4 == (1..Rows(Base4)) \X (1..Cols(Base4))

Before(p, q) == p[1] < q[1] \/ (p[1] = q[1] /\ p[2] < q[2])

TwoPixelScenes ==
    {{Base4, Moved(Moved(Base4, x[1][1], x[1][2], x[3]), x[2][1], x[2][2], 50)} :
        x \in {y \in Pixels4 \X Pixels4 \X {50, -50} : Before(y[1], y[2])}}

InitSensor ==
    /\ cap = NoHandle
    /\ last_frame = None
    /\ opened = {}
    /\ op = "init"
    /\ frame = None /\ motion_frame = None /\ motion_amount = Zero
    /\ error = "none"
    /\ recent = None
    /\ misses = 0
    /\ pendingStart = FALSE
    /\ obs = NoObs

Init == InitSensor /\ scene = Frames

InitE2E == InitSensor /\ scene \in TwoPixelScenes

Next == StartCapture \/ StopCapture \/ GetMotion

Spec == Init /\ [][Next]_vars

SpecE2E == InitE2E /\ [][Next]_vars

-----------------------------------------------------------------------------
(* Properties *)

Succeeded == op = "get_motion" /\ obs.read_ok
Failed == op = "get_motion" /\ ~obs.read_ok
AllZero(img) == \A r \in 1..Rows(img) : \A c \in 1..Cols(img) : img[r][c] = 0

\* C1: the first successful get_motion that follows a start_capture call
\* returns motion amount 0 and an all-zero mask, whatever the frame.
C1_FirstAfterStartIsZero ==
    (Succeeded /\ obs.after_start) =>
        (motion_amount = Zero /\ AllZero(motion_frame))

\* C2: stop_capture returns normally and leaves cap and last_frame None; on a
\* sensor without a handle it changes nothing; and a successful get_motion
\* with no successful capture since the last stop_capture (or ever) starts
\* the device itself when no handle is held and reports amount 0 with an
\* all-zero mask.
C2_StopRestoresInitialState ==
    [][ /\ op' = "stop_capture" =>
              /\ error' = "none"
              /\ cap' = NoHandle /\ last_frame' = None
              /\ cap = NoHandle =>
                    (last_frame = None /\ opened' = opened /\ cap' = cap)
        /\ (op' = "get_motion" /\ obs'.read_ok /\ recent = None) =>
              /\ cap = NoHandle => obs'.started
              /\ motion_amount' = Zero /\ AllZero(motion_frame')
      ]_vars

C2_Witness ==
    op = "stop_capture" /\ obs.before # None /\ cap = NoHandle /\ last_frame = None

\* C3: a get_motion whose read is unsuccessful returns (None, None, 0) and
\* raises nothing; no get_motion raises.
C3_FailedReadReturnsNothing ==
    /\ op = "get_motion" => error = "none"
    /\ Failed => (frame = None /\ motion_frame = None /\ motion_amount = Zero)

C3_Witness == Failed /\ obs.started /\ cap \notin opened /\ last_frame # None

\* C4: a returned mask comes with amount = nonzero pixels * 100 / pixels,
\* exactly, and every returned amount lies in [0, 100].
C4_AmountIsExactShare ==
    /\ (op = "get_motion" /\ motion_frame # None) =>
          motion_amount.num * Size(motion_frame)
              = CountNonZero(motion_frame) * 100 * motion_amount.den
    /\ motion_amount.den > 0
    /\ 0 <= motion_amount.num
    /\ motion_amount.num <= 100 * motion_amount.den

C4_Witness ==
    op = "get_motion" /\ motion_frame # None /\ motion_amount.den > 1

\* the frames a and b are 4x4 gray frames that differ in exactly two pixels,
\* by 50 each
DiffersInTwoBy50(a, b) ==
    /\ Rows(a) = 4 /\ Cols(a) = 4 /\ Rows(b) = 4 /\ Cols(b) = 4
    /\ Cardinality({p \in Pixels4 : a[p[1]][p[2]] # b[p[1]][p[2]]}) = 2
    /\ \A p \in Pixels4 :
          LET x == a[p[1]][p[2]]
              y == b[p[1]][p[2]]
          IN  /\ x[1] = x[2] /\ x[2] = x[3] /\ y[1] = y[2] /\ y[2] = y[3]
              /\ Abs(x[1] - y[1]) \in {0, 50}

TwoPixelCase ==
    Succeeded /\ obs.before # None /\ DiffersInTwoBy50(obs.before, frame)

\* C5 as claimed: two consecutive captures of 4x4 gray frames that differ in
\* exactly two pixels by 50 give motion amount 2 * 100 / 16 = 12.5.
C5_TwoPixelsGiveTwelveAndAHalf ==
    TwoPixelCase => motion_amount = Frac(2 * 100, 16)

\* C5 as amended: they give motion amount 0 or 1 * 100 / 16 = 6.25: the box
\* blur leaves at most one pixel that differs by more than 30.
C5_TwoPixelsGiveAtMostOnePixel ==
    TwoPixelCase =>
        /\ CountNonZero(motion_frame) <= 1
        /\ motion_amount \in {Zero, Frac(1 * 100, 16)}

C5_Witness == TwoPixelCase /\ motion_amount = Frac(1 * 100, 16)

\* C6: when a previous processed image exists, a mask pixel is 255 iff the
\* new and the previous processed image differ there by more than 30, and 0
\* otherwise.
C6_MaskIsStrictThreshold ==
    (Succeeded /\ obs.before # None) =>
        LET new  == ApplyKernel(frame, kernel)
            prev == ApplyKernel(obs.before, kernel)
        IN  \A r \in 1..Rows(new) : \A c \in 1..Cols(new) :
                motion_frame[r][c] =
                    IF Abs(new[r][c] - prev[r][c]) > 30 THEN 255 ELSE 0

C6_Witness ==
    /\ Succeeded /\ obs.before # None
    /\ LET new  == ApplyKernel(frame, kernel)
           prev == ApplyKernel(obs.before, kernel)
       IN  /\ \E r \in 1..Rows(new) : \E c \in 1..Cols(new) :
                 Abs(new[r][c] - prev[r][c]) = 30 /\ motion_frame[r][c] = 0
           /\ \E r \in 1..Rows(new) : \E c \in 1..Cols(new) :
                 Abs(new[r][c] - prev[r][c]) = 31 /\ motion_frame[r][c] = 255

\* C7: get_motion performs start_capture exactly when no handle is held or
\* the held one is not open, reads from the handle then held, never from
\* None, and leaves a handle in cap; cap only becomes None by stop_capture.
C7_LazyStartThenRead ==
    [][ /\ op' = "get_motion" =>
              /\ obs'.started <=> (cap = NoHandle \/ cap \notin opened)
              /\ obs'.read_from # NoHandle
              /\ obs'.read_from = cap'
              /\ obs'.started => cap' # cap
              /\ error' = "none"
        /\ (cap # NoHandle /\ cap' = NoHandle) => op' = "stop_capture"
      ]_vars

C7_Witness ==
    op = "get_motion" /\ obs.started /\ obs.before # None /\ cap \in opened

\* C8: after a successful get_motion last_frame is the processed image of
\* the returned frame, with or without a comparison, and the mask of a
\* comparison is the one against the processed image of the previous
\* successful capture.
C8_LastFrameIsProcessedCapture ==
    /\ Succeeded => last_frame = ApplyKernel(frame, kernel)
    /\ (Succeeded /\ obs.before # None) =>
          motion_frame = Threshold(AbsDiff(ApplyKernel(frame, kernel),
                                           ApplyKernel(obs.before, kernel)),
                                   Thresh, MaxVal)

C8_Witness ==
    Succeeded /\ obs.before # None /\ obs.before # frame /\ motion_amount # Zero

C10_AtMostOneHandle ==
    /\ opened \subseteq {cap}
    /\ op = "stop_capture" => opened = {}

=============================================================================
